---------------------------- MODULE Spec2Model ----------------------------
(***************************************************************************)
(* Model of the cemu emulation session: cemu/emulator.py (Emulator,        *)
(* EmulationRegisters, EmulatorState, MEMORY_MAP_DEFAULT_LAYOUT) and the   *)
(* execution driver of cemu/ui/main.py (EmulationRunner.run).              *)
(*                                                                         *)
(* Every method is a pure operator from a session record to a session      *)
(* record.  A session record carries the fields of the Emulator object and *)
(* three transient fields: exc (the Python exception in flight, "none"     *)
(* when there is none), ret (the boolean a private helper returned) and ev *)
(* (the calls made on the engine, the observers, the popup and the runner, *)
(* in order).  The runner installed by CEmuWindow.__init__ is called       *)
(* synchronously, so one user request is one action.                       *)
(*                                                                         *)
(* The Unicorn engine, the assembler and the disassembler are external:    *)
(* they are modelled at their boundary.  Machine code is a sequence of     *)
(* byte tokens: "inc" (adds one to register A) assembles to <<"I1","I2">>, *)
(* "fault" (an access to unmapped memory) to <<"F1","F2">>; a source       *)
(* holding "bad" does not assemble.  Sections carry no initial content     *)
(* (none of the layouts of the model has any).                             *)
(***************************************************************************)
EXTENDS Integers, Sequences, FiniteSets, TLC

VARIABLES
    arch,           \* cemu.core.context.architecture
    state,          \* Emulator.state
    vm,             \* Emulator.vm (the engine, or None)
    code,           \* Emulator.code
    codelines,      \* Emulator.codelines
    sections,       \* Emulator.sections
    registers,      \* Emulator.registers (the register cache)
    start_addr,     \* Emulator.start_addr
    end_addr,       \* Emulator.end_addr: <<>> until first assigned, then <<v>>
    use_step_mode,  \* Emulator.use_step_mode
    callbacks,      \* Emulator.__state_change_callbacks
    last,           \* the last request: its name, argument, events and exception
    fresh,          \* run requests made in a row since the last reset (-1: none to count)
    lock,           \* Emulator.lock: 0 when free, else the thread that holds it
    threads         \* where each thread issuing run requests stands

vars == <<arch, state, vm, code, codelines, sections, registers, start_addr,
          end_addr, use_step_mode, callbacks, last, fresh, lock, threads>>

---------------------------------------------------------------------------
(* Bounds of the model *)

MaxProg == 2

\* The threads that issue run requests at the same time.
MaxThreads == 2

\* The longest section list a lookup is tried on.
MaxSections == 3

---------------------------------------------------------------------------
(* EmulatorState *)

STARTING == "STARTING"
NOT_RUNNING == "NOT_RUNNING"
IDLE == "IDLE"
RUNNING == "RUNNING"
TEARDOWN == "TEARDOWN"
FINISHED == "FINISHED"

EmulatorState == {STARTING, NOT_RUNNING, IDLE, RUNNING, TEARDOWN, FINISHED}

---------------------------------------------------------------------------
(* Memory sections *)

MEMORY_TEXT_SECTION_NAME == "text"
MEMORY_DATA_SECTION_NAME == "data"
MEMORY_STACK_SECTION_NAME == "stack"

MemorySection(name, address, size, perm) ==
    [name |-> name, address |-> address, size |-> size, permission |-> perm]

TextBase == 16384
DataBase == 20480
StackBase == 24576
SmallSize == 4096
StackSize == 16384

MEMORY_MAP_DEFAULT_LAYOUT ==
    << MemorySection(MEMORY_TEXT_SECTION_NAME, TextBase, SmallSize, {"READ", "EXEC"}),
       MemorySection(MEMORY_DATA_SECTION_NAME, DataBase, SmallSize, {"READ", "WRITE"}),
       MemorySection(MEMORY_STACK_SECTION_NAME, StackBase, StackSize, {"READ", "WRITE"}) >>

\* The layouts the memory-map editor can leave in Emulator.sections.
LayoutNoStack == SubSeq(MEMORY_MAP_DEFAULT_LAYOUT, 1, 2)
LayoutDataFirst ==
    << MEMORY_MAP_DEFAULT_LAYOUT[2], MEMORY_MAP_DEFAULT_LAYOUT[1], MEMORY_MAP_DEFAULT_LAYOUT[3] >>
LayoutTwoText == << MEMORY_MAP_DEFAULT_LAYOUT[1] >> \o MEMORY_MAP_DEFAULT_LAYOUT
Layouts == {MEMORY_MAP_DEFAULT_LAYOUT, LayoutNoStack, LayoutDataFirst, LayoutTwoText, <<>>}

---------------------------------------------------------------------------
(* Architecture backend *)

Architectures == {"x86_64", "x86_32"}

is_x86_32(a) == a = "x86_32"
is_x86(a) == a \in {"x86_32", "x86_64"}

selector_registers == {"CS", "DS", "SS", "ES", "FS", "GS"}

ArchPc == "PC"
ArchSp == "SP"

ArchRegisters(a) ==
    IF is_x86_32(a) THEN {ArchPc, ArchSp, "A"} \cup selector_registers
    ELSE {ArchPc, ArchSp, "A"}

\* int(x86.X86_32.SegmentDescriptor(base, type, ...)): a non-zero value made of
\* the base and the segment type.
SegmentDescriptor(base, type) == base * 16 + type

SegCode == 9
SegData == 3
SegStack == 7

Mnemonics == {"inc", "fault"}

\* The source texts the code editor can hold: up to MaxProg instructions, or a
\* text with a syntax error.
RECURSIVE SeqsUpTo(_, _)
SeqsUpTo(S, n) ==
    IF n = 0 THEN {<<>>}
    ELSE LET shorter == SeqsUpTo(S, n - 1)
         IN  shorter \cup {Append(p, m) : p \in {q \in shorter : Len(q) = n - 1}, m \in S}

Sources == SeqsUpTo(Mnemonics, MaxProg) \cup {<<"bad">>}

Encode(m) ==
    CASE m = "inc" -> <<"I1", "I2">>
      [] m = "fault" -> <<"F1", "F2">>

\* cemu.arch.assemble(codelines, base_address): the instructions, each with its
\* address and bytes; ok is FALSE when the assembler raises.
RECURSIVE AssembleFrom(_, _, _)
AssembleFrom(src, i, addr) ==
    IF i > Len(src) THEN <<>>
    ELSE LET bytes == Encode(src[i])
         IN  << [address |-> addr, bytes |-> bytes, op |-> src[i]] >>
             \o AssembleFrom(src, i + 1, addr + Len(bytes))

assemble(src, base) ==
    IF \E i \in 1..Len(src) : src[i] \notin Mnemonics
    THEN [ok |-> FALSE, insns |-> <<>>]
    ELSE [ok |-> TRUE, insns |-> AssembleFrom(src, 1, base)]

RECURSIVE JoinBytes(_, _)
JoinBytes(insns, i) ==
    IF i > Len(insns) THEN <<>> ELSE insns[i].bytes \o JoinBytes(insns, i + 1)

\* cemu.arch.disassemble(code, 1, addr), first result: the instruction the bytes
\* start with, or none when they start with no whole instruction.
NoInsn == [found |-> FALSE, op |-> "", address |-> 0, size |-> 0, end |-> 0]

Decode(bytes, addr) ==
    IF Len(bytes) >= 2 /\ bytes[1] = "I1" /\ bytes[2] = "I2"
    THEN [found |-> TRUE, op |-> "inc", address |-> addr, size |-> 2, end |-> addr + 2]
    ELSE IF Len(bytes) >= 2 /\ bytes[1] = "F1" /\ bytes[2] = "F2"
    THEN [found |-> TRUE, op |-> "fault", address |-> addr, size |-> 2, end |-> addr + 2]
    ELSE NoInsn

next_instruction(bytes, addr) == Decode(bytes, addr)

\* Python's code[k:]: a negative k counts from the end, a k past the end gives b"".
SliceFrom(s, k) ==
    LET n == Len(s)
        from == IF k >= 0 THEN k ELSE IF n + k > 0 THEN n + k ELSE 0
    IN  IF from >= n THEN <<>> ELSE SubSeq(s, from + 1, n)

---------------------------------------------------------------------------
(* The engine (unicorn.Uc), at its boundary *)

None ==
    [live |-> FALSE, arch |-> "", mapped |-> <<>>, regs |-> <<>>,
     mem |-> [base |-> 0, bytes |-> <<>>], hooks |-> <<>>, trap |-> FALSE,
     faulted |-> FALSE]

\* arch.uc: a new engine, nothing mapped, every register zero.
Uc(a) ==
    [live |-> TRUE, arch |-> a, mapped |-> <<>>, regs |-> [r \in ArchRegisters(a) |-> 0],
     mem |-> [base |-> 0, bytes |-> <<>>], hooks |-> <<>>, trap |-> FALSE,
     faulted |-> FALSE]

Overlap(s, t) ==
    s.address < t.address + t.size /\ t.address < s.address + s.size

\* Uc.mem_map raises UcError when the region overlaps a mapped one.
CanMap(u, section) == \A i \in 1..Len(u.mapped) : ~Overlap(u.mapped[i], section)

\* Uc.mem_unmap raises UcError when the region is not mapped.
IsMapped(u, section) ==
    \E i \in 1..Len(u.mapped) :
        /\ u.mapped[i].address = section.address
        /\ u.mapped[i].size = section.size

RECURSIVE Without(_, _, _)
Without(regions, section, i) ==
    IF i > Len(regions) THEN <<>>
    ELSE IF regions[i].address = section.address /\ regions[i].size = section.size
    THEN Without(regions, section, i + 1)
    ELSE << regions[i] >> \o Without(regions, section, i + 1)

\* The mapped executable region pc lies in, as a set (empty when there is none).
ExecRegionsAt(u, pc) ==
    {i \in 1..Len(u.mapped) :
        /\ u.mapped[i].address <= pc
        /\ pc < u.mapped[i].address + u.mapped[i].size
        /\ "EXEC" \in u.mapped[i].permission}

Written(u, pc) == u.mem.base <= pc /\ pc < u.mem.base + Len(u.mem.bytes)

Writable(u, addr) ==
    \E i \in 1..Len(u.mapped) :
        /\ u.mapped[i].address <= addr
        /\ addr < u.mapped[i].address + u.mapped[i].size
        /\ "WRITE" \in u.mapped[i].permission

\* Memory that was mapped and never written holds zeros.  On x86 two zero
\* bytes are "add [A], al", which faults unless A points into writable
\* memory; elsewhere zeros do nothing.
ZeroFaults(u) == is_x86(u.arch) /\ ~Writable(u, u.regs["A"])

Min(S) == CHOOSE x \in S : \A y \in S : x <= y

\* Where a run of zeros starting at pc ends: at until, at the first written
\* byte, or at the end of the region, whichever comes first.
ZeroRunEnd(u, pc, until) ==
    LET i == CHOOSE j \in ExecRegionsAt(u, pc) : TRUE
    IN  Min({u.mapped[i].address + u.mapped[i].size}
            \cup {a \in {until} : a > pc}
            \cup {a \in {u.mem.base} : a > pc /\ Len(u.mem.bytes) > 0})

\* Uc.emu_start(begin, until): executes from begin until the program counter is
\* until.  A fetch outside the mapped executable memory, bytes that are no
\* instruction and an instruction that accesses unmapped memory raise UcError
\* (trap), the program counter staying at that instruction.  faulted records
\* that the engine has faulted in some run.
RECURSIVE Execute(_, _, _)
Execute(u, pc, until) ==
    IF pc = until
    THEN [u EXCEPT !.regs[ArchPc] = pc]
    ELSE IF ExecRegionsAt(u, pc) = {}
    THEN [u EXCEPT !.regs[ArchPc] = pc, !.trap = TRUE, !.faulted = TRUE]
    ELSE IF Written(u, pc)
    THEN LET insn == Decode(SliceFrom(u.mem.bytes, pc - u.mem.base), pc)
         IN  IF ~insn.found \/ insn.op = "fault"
             THEN [u EXCEPT !.regs[ArchPc] = pc, !.trap = TRUE, !.faulted = TRUE]
             ELSE Execute([u EXCEPT !.regs["A"] = @ + 1], insn.end, until)
    ELSE IF ZeroFaults(u)
    THEN [u EXCEPT !.regs[ArchPc] = pc, !.trap = TRUE, !.faulted = TRUE]
    ELSE Execute(u, ZeroRunEnd(u, pc, until), until)

emu_start(u, begin, until) == Execute([u EXCEPT !.trap = FALSE], begin, until)

---------------------------------------------------------------------------
(* The session record and Python's exceptions *)

\* Sequencing: the session one statement leaves is handed to the statements
\* after it.
Then(e, Rest(_)) == Rest(e)

NoExc == [type |-> "none", arg |-> ""]

Raise(e, type, arg) == [e EXCEPT !.exc = [type |-> type, arg |-> arg]]

Raised(e) == e.exc # NoExc

Ev(e, x) == [e EXCEPT !.ev = Append(@, x)]

\* The Emulator object as the variables hold it, no call in flight.
Self ==
    [arch |-> arch, state |-> state, vm |-> vm, code |-> code,
     codelines |-> codelines, sections |-> sections, registers |-> registers,
     start_addr |-> start_addr, end_addr |-> end_addr,
     use_step_mode |-> use_step_mode, callbacks |-> callbacks,
     exc |-> NoExc, ret |-> TRUE, ev |-> <<>>]

---------------------------------------------------------------------------
(* EmulationRegisters *)

get_register_value(e, regname) ==
    IF ~e.vm.live THEN <<>> ELSE << e.vm.regs[regname] >>

\* Two narrower sets of refreshing states, for comparison: with the first a
\* read during a run returns the cached value, with the second a read after
\* the run has finished does.
RefreshStatesNoRunning == {IDLE, FINISHED}

RefreshStatesNoFinished == {RUNNING, IDLE}

\* The states in which a read of the cache first pulls the value from the engine.
RefreshStates == {RUNNING, IDLE, FINISHED}

\* EmulationRegisters.__getitem__: the session after the read (the cache may
\* have been refreshed); the value read is its registers[key].
__getitem__(e, key) ==
    IF e.state \in RefreshStates /\ key \in DOMAIN e.registers
    THEN LET val == get_register_value(e, key)
         IN  IF val # <<>>
             THEN Ev([e EXCEPT !.registers[key] = val[1]], <<"reg_read", key>>)
             ELSE e
    ELSE IF key \notin DOMAIN e.registers
    THEN Raise(e, "KeyError", key)
    ELSE e

\* EmulationRegisters.__setitem__ (UserDict's): a plain store.
__setitem__(e, key, value) ==
    [e EXCEPT !.registers =
        [k \in DOMAIN e.registers \cup {key} |->
            IF k = key THEN value ELSE e.registers[k]]]

\* EmulationRegisters.items(): every value is read through __getitem__.
items(e) ==
    IF e.state \in RefreshStates /\ e.vm.live
    THEN [e EXCEPT !.registers = [k \in DOMAIN e.registers |-> e.vm.regs[k]]]
    ELSE e

is_running(e) == e.state \in {RUNNING, IDLE}

---------------------------------------------------------------------------
(* Emulator.find_section *)

Matches(secs, name) == SelectSeq(secs, LAMBDA s : s.name = name)

NoSection == MemorySection("", 0, 0, {})

\* For comparison: a lookup that settles for the first of several matches.
FirstMatch(e, section_name) ==
    LET matches == Matches(e.sections, section_name)
    IN  IF Len(matches) = 0
        THEN [exc |-> [type |-> "KeyError", arg |-> section_name], section |-> NoSection]
        ELSE [exc |-> NoExc, section |-> matches[1]]

find_section(e, section_name) ==
    LET matches == Matches(e.sections, section_name)
    IN  IF Len(matches) = 0
        THEN [exc |-> [type |-> "KeyError", arg |-> section_name], section |-> NoSection]
        ELSE IF Len(matches) > 1
        THEN [exc |-> [type |-> "ValueError", arg |-> section_name], section |-> NoSection]
        ELSE [exc |-> NoExc, section |-> matches[1]]

---------------------------------------------------------------------------
(* Emulator.setup and its three steps *)

RECURSIVE MapSections(_, _)
MapSections(e, i) ==
    IF i > Len(e.sections) THEN e
    ELSE LET section == e.sections[i]
         IN  IF ~CanMap(e.vm, section)
             THEN Raise(e, "UcError", "mem_map")
             ELSE MapSections(
                    Ev([e EXCEPT !.vm.mapped = Append(@, section)],
                       <<"mem_map", section.name>>),
                    i + 1)

__populate_memory(e) ==
    IF ~e.vm.live THEN [e EXCEPT !.ret = FALSE]
    ELSE IF Len(e.sections) < 1 THEN [e EXCEPT !.ret = FALSE]
    ELSE Then(MapSections(e, 1), LAMBDA m :
            IF Raised(m) THEN m
            ELSE [m EXCEPT !.start_addr = m.sections[1].address,
                           !.end_addr = << -1 >>,
                           !.ret = TRUE])

\* "Set the initial IP if unspecified"; the warning formats registers[arch.pc],
\* one more read of the cache.
DefaultPc(e) ==
    Then(__getitem__(e, ArchPc), LAMBDA r :
        IF Raised(r) \/ r.registers[ArchPc] # 0 THEN r
        ELSE Then(find_section(r, MEMORY_TEXT_SECTION_NAME), LAMBDA f :
                IF f.exc # NoExc THEN [r EXCEPT !.exc = f.exc]
                ELSE __getitem__(__setitem__(r, ArchPc, f.section.address), ArchPc)))

\* For comparison: a stack pointer seeded at the bottom of the stack section.
StackBottom(section) == section.address

\* "in the middle of the stack section"
StackMiddle(section) == section.address + (section.size \div 2)

\* "Set the initial SP if unspecified, in the middle of the stack section".
DefaultSp(e) ==
    Then(__getitem__(e, ArchSp), LAMBDA r :
        IF Raised(r) \/ r.registers[ArchSp] # 0 THEN r
        ELSE Then(find_section(r, MEMORY_STACK_SECTION_NAME), LAMBDA f :
                IF f.exc # NoExc THEN [r EXCEPT !.exc = f.exc]
                ELSE __getitem__(
                       __setitem__(r, ArchSp, StackMiddle(f.section)),
                       ArchSp)))

\* One fake selector of the 32-bit x86: registers[reg] = the descriptor of the
\* named section.
Selector(e, reg, section_name, type) ==
    IF Raised(e) THEN e
    ELSE Then(find_section(e, section_name), LAMBDA f :
            IF f.exc # NoExc THEN [e EXCEPT !.exc = f.exc]
            ELSE __setitem__(e, reg, SegmentDescriptor(f.section.address \div 256, type)))

Selectors(e) ==
    IF ~is_x86_32(e.arch) THEN e
    ELSE Then(Selector(
                Selector(
                  Selector(e, "CS", MEMORY_TEXT_SECTION_NAME, SegCode),
                  "DS", MEMORY_DATA_SECTION_NAME, SegData),
                "SS", MEMORY_STACK_SECTION_NAME, SegStack),
              LAMBDA s :
                IF Raised(s) THEN s
                ELSE __setitem__(__setitem__(__setitem__(s, "GS", 0), "FS", 0), "ES", 0))

\* The names the final loop writes to the engine.
WrittenRegisters(e) == DOMAIN e.registers \ selector_registers

\* "Populate all the registers for unicorn": every cached value but the
\* selectors' is written to the engine.
WriteRegisters(e) ==
    Then(items(e), LAMBDA r :
        Ev([r EXCEPT !.vm.regs =
               [k \in DOMAIN r.vm.regs |->
                   IF k \in WrittenRegisters(r) THEN r.registers[k] ELSE r.vm.regs[k]]],
           <<"reg_write", WrittenRegisters(r)>>))

__populate_vm_registers(e) ==
    IF ~e.vm.live THEN [e EXCEPT !.ret = FALSE]
    ELSE Then(DefaultPc(e), LAMBDA p :
         Then(IF Raised(p) THEN p ELSE DefaultSp(p), LAMBDA s :
         Then(IF Raised(s) THEN s ELSE Selectors(s), LAMBDA x :
            IF Raised(x) THEN x
            ELSE [WriteRegisters(x) EXCEPT !.ret = TRUE])))

__generate_text_bytecode(e) ==
    Then(assemble(e.codelines, e.start_addr), LAMBDA a :
        IF ~a.ok \/ Len(a.insns) = 0
        THEN Ev([e EXCEPT !.ret = FALSE], <<"error", "Failed to compile">>)
        ELSE Then(JoinBytes(a.insns, 1), LAMBDA bytes :
                [e EXCEPT !.code = bytes,
                          !.end_addr = << e.start_addr + Len(bytes) >>,
                          !.ret = TRUE]))

validate_assembly_code(e) == __generate_text_bytecode(e)

RequiredSections ==
    << MEMORY_TEXT_SECTION_NAME, MEMORY_DATA_SECTION_NAME, MEMORY_STACK_SECTION_NAME >>

\* The loop over the three required names: KeyError becomes
\* CemuEmulatorMissingRequiredSection, ValueError propagates.
RECURSIVE CheckRequired(_, _)
CheckRequired(e, i) ==
    IF i > Len(RequiredSections) THEN e
    ELSE Then(find_section(e, RequiredSections[i]), LAMBDA f :
            IF f.exc.type = "KeyError"
            THEN Raise(e, "CemuEmulatorMissingRequiredSection", RequiredSections[i])
            ELSE IF f.exc # NoExc THEN [e EXCEPT !.exc = f.exc]
            ELSE CheckRequired(e, i + 1))

__populate_text_section(e) ==
    IF ~e.vm.live THEN [e EXCEPT !.ret = FALSE]
    ELSE Then(CheckRequired(e, 1), LAMBDA c :
            IF Raised(c) THEN c
            ELSE Then(find_section(c, MEMORY_TEXT_SECTION_NAME).section, LAMBDA text_section :
                 Then(__generate_text_bytecode(c), LAMBDA g :
                    IF ~g.ret THEN [g EXCEPT !.ret = FALSE]
                    ELSE Ev([g EXCEPT !.vm.mem =
                                [base |-> text_section.address, bytes |-> g.code],
                              !.ret = TRUE],
                            <<"mem_write", text_section.name>>))))

\* For comparison: a setup that never takes the early return.
AlreadySetupNever(e) == FALSE

\* "Environment already setup, just resume".
AlreadySetup(e) == e.vm.live

HookNames(a) ==
    << "UC_HOOK_BLOCK", "UC_HOOK_CODE", "UC_HOOK_INTR", "UC_HOOK_MEM_WRITE",
       "UC_HOOK_MEM_READ" >> \o (IF is_x86(a) THEN << "UC_HOOK_INSN" >> ELSE <<>>)

setup(e) ==
    IF AlreadySetup(e) THEN e
    ELSE Then(Ev(Ev([e EXCEPT !.vm = [Uc(e.arch) EXCEPT !.hooks = HookNames(e.arch)]],
                    <<"uc_new">>),
                 <<"hook_add", Len(HookNames(e.arch))>>), LAMBDA v :
         Then(__populate_memory(v), LAMBDA m :
            IF Raised(m) THEN m
            ELSE IF ~m.ret THEN Raise(m, "RuntimeError", "populate_memory() failed")
            ELSE Then(__populate_vm_registers(m), LAMBDA r :
                    IF Raised(r) THEN r
                    ELSE IF ~r.ret
                    THEN Raise(r, "RuntimeError", "populate_registers() failed")
                    ELSE Then(__populate_text_section(r), LAMBDA t :
                            IF Raised(t) THEN t
                            ELSE IF ~t.ret
                            THEN Raise(t, "Exception", "populate_text_section() failed")
                            ELSE t))))

---------------------------------------------------------------------------
(* Emulator.teardown *)

RECURSIVE UnmapSections(_, _)
UnmapSections(e, i) ==
    IF i > Len(e.sections) THEN e
    ELSE LET section == e.sections[i]
         IN  IF ~IsMapped(e.vm, section)
             THEN Raise(e, "UcError", "mem_unmap")
             ELSE UnmapSections(
                    Ev([e EXCEPT !.vm.mapped = Without(@, section, 1)],
                       <<"mem_unmap", section.name>>),
                    i + 1)

teardown(e) ==
    IF ~e.vm.live THEN e
    ELSE Then(__getitem__(e, ArchPc), LAMBDA p :
         Then(IF Raised(p) THEN p ELSE UnmapSections(p, 1), LAMBDA u :
            IF Raised(u) THEN u
            ELSE Ev([u EXCEPT !.vm = None], <<"uc_del">>)))

---------------------------------------------------------------------------
(* Emulator.set, Emulator.reset and EmulationRunner.run *)

\* For comparison: a refresh that reads nothing from the engine.
RefreshNothing(e) == [e EXCEPT !.ret = FALSE]

__refresh_registers_from_vm(e) ==
    IF ~e.vm.live \/ ~is_running(e) THEN [e EXCEPT !.ret = FALSE]
    ELSE Ev([e EXCEPT !.registers = [k \in DOMAIN e.registers |-> e.vm.regs[k]],
                      !.ret = TRUE],
            <<"refresh">>)

\* For comparison: a set that never takes the early return.
SameStateNever(e, new_state) == FALSE

\* "if self.state == new_state: return"
SameState(e, new_state) == e.state = new_state

\* For comparison: a setup() whose error leaves set() by the exception.
SetupErrorEscapes(e) == e

\* The except clause around setup(): the error is shown and the transition goes on.
CatchSetup(e) ==
    IF Raised(e)
    THEN Ev([e EXCEPT !.exc = NoExc], <<"popup", e.exc.type, e.exc.arg>>)
    ELSE e

\* For comparison: an entry into TEARDOWN that releases the engine at once.
EnteringReleases(e, new_state) ==
    IF new_state \in {RUNNING, IDLE} THEN CatchSetup(setup(e))
    ELSE IF new_state = TEARDOWN THEN teardown(e)
    ELSE e

\* "Validate which state we're entering"
Entering(e, new_state) ==
    IF new_state \in {RUNNING, IDLE}
    THEN Then(CatchSetup(setup(Ev(e, <<"call", "setup">>))), LAMBDA s :
            IF s.state = RUNNING THEN __refresh_registers_from_vm(s) ELSE s)
    ELSE IF new_state = FINISHED THEN __refresh_registers_from_vm(e)
    ELSE e

\* Every cached register holds the engine's value.
Synced(e) ==
    /\ e.vm.live
    /\ \A k \in DOMAIN e.registers : e.registers[k] = e.vm.regs[k]

\* One observer called: the event keeps what it could read (the state, whether
\* an engine is held, how many sections the engine has mapped, whether the
\* register cache agrees with the engine).
Observe(e, new_state, i) ==
    Ev(e, <<"cb", new_state, e.callbacks[new_state][i], e.state, e.vm.live,
            Len(e.vm.mapped), Synced(e)>>)

RECURSIVE set(_, _)

\* Observers that call emu.set themselves, and the state each asks for.
ReentrantObservers == {"goto_IDLE", "goto_FINISHED", "goto_TEARDOWN", "goto_NOT_RUNNING"}

ReentrantTarget(cb) ==
    CASE cb = "goto_IDLE" -> IDLE
      [] cb = "goto_FINISHED" -> FINISHED
      [] cb = "goto_TEARDOWN" -> TEARDOWN
      [] cb = "goto_NOT_RUNNING" -> NOT_RUNNING

\* "res = new_state_cb()": the observer runs, and what it does to the session
\* is done before the next observer is called.
Invoke(e, new_state, i) ==
    Then(Observe(e, new_state, i), LAMBDA o :
        IF e.callbacks[new_state][i] \in ReentrantObservers
        THEN set(o, ReentrantTarget(e.callbacks[new_state][i]))
        ELSE o)

\* For comparison: a notification that stops after the first observer.
NotifyFirstOnly(e, new_state, i) ==
    IF Len(e.callbacks[new_state]) = 0 THEN e ELSE Observe(e, new_state, 1)

\* "Notify the components who've subscribed to the new state change": the
\* observers of main.py only write to the status bar.  An observer may
\* raise or change the state; the loop goes on over the list it started with.
RECURSIVE Notify(_, _, _)
Notify(e, new_state, i) ==
    IF Raised(e) \/ i > Len(e.callbacks[new_state]) THEN e
    ELSE Notify(Invoke(e, new_state, i), new_state, i + 1)

RECURSIVE reset(_)
RECURSIVE EmulationRunner_run(_)

\* For comparison: a runner that goes back to IDLE after every run that returned.
AfterRunAlwaysIdle(e) ==
    IF e.vm.trap
    THEN Then(__getitem__(__getitem__(e, ArchPc), ArchSp), LAMBDA q :
            set(Ev(q, <<"popup_fault", q.registers[ArchPc], q.registers[ArchSp]>>),
                FINISHED))
    ELSE set(__getitem__(e, ArchPc), IDLE)

\* try: the part of EmulationRunner.run after the engine returned or raised.
AfterRun(e) ==
    IF e.vm.trap
    THEN Then(__getitem__(__getitem__(e, ArchPc), ArchSp), LAMBDA q :
            set(Ev(q, <<"popup_fault", q.registers[ArchPc], q.registers[ArchSp]>>),
                FINISHED))
    ELSE Then(__getitem__(e, ArchPc), LAMBDA p :
            IF p.registers[ArchPc] = p.start_addr + Len(p.code)
            THEN set(p, FINISHED)
            ELSE set(p, IDLE))

\* "with emu.lock: emu.vm.emu_start(start_address, end_address)"; the
\* emu_start event keeps whether the engine had faulted in an earlier run.
LockedStart(e, start_address, end_address) ==
    Then(emu_start(e.vm, start_address, end_address), LAMBDA u :
        Ev(Ev(Ev(Ev([e EXCEPT !.vm = u], <<"lock_acquire">>),
                 <<"emu_start", start_address, end_address, e.vm.faulted>>),
              IF u.trap THEN <<"emu_fault", u.regs[ArchPc]>>
                        ELSE <<"emu_return", u.regs[ArchPc]>>),
           <<"lock_release">>))

\* For comparison: a step that stops where it starts.
StepEndAtStart(insn) == insn.address

\* "Determine where to stop", step mode: the end of the instruction at the start.
StepEnd(insn) == insn.end

\* "Determine where to stop", free run: the end of the compiled code.
RunEnd(e) == e.start_addr + Len(e.code)

\* For comparison: a runner that checks for the engine and not for the state.
RunnerChecksEngineOnly(e) ==
    IF ~e.vm.live THEN Ev(e, <<"error", "VM is not ready">>)
    ELSE AfterRun(LockedStart(e, e.start_addr, RunEnd(e)))

\* EmulationRunner.run(), called by set() on the thread that requested RUNNING.
EmulationRunner_run(e) ==
    IF ~e.vm.live THEN Ev(e, <<"error", "VM is not ready">>)
    ELSE IF ~is_running(e) THEN Ev(e, <<"error", "Emulator is in invalid state">>)
    ELSE Then(__getitem__(e, ArchPc), LAMBDA p :
         Then(IF p.registers[ArchPc] # 0 THEN p.registers[ArchPc] ELSE p.start_addr,
              LAMBDA start_address :
         Then(start_address - p.start_addr, LAMBDA start_offset :
         Then(next_instruction(SliceFrom(p.code, start_offset), start_address),
              LAMBDA insn :
            IF p.use_step_mode /\ ~insn.found
            THEN set(p, FINISHED)
            ELSE Then(IF p.use_step_mode THEN StepEnd(insn) ELSE RunEnd(p),
                      LAMBDA end_address :
                        AfterRun(LockedStart(p, start_address, end_address)))))))

\* For comparison: a TEARDOWN exit that releases the engine and stops there.
LeavingWithoutReset(e) ==
    IF e.state = RUNNING
    THEN EmulationRunner_run(Ev(e, <<"call", "run">>))
    ELSE IF e.state = TEARDOWN
    THEN teardown(Ev(e, <<"call", "teardown">>))
    ELSE e

\* The match on self.state after the observers ran.
Leaving(e) ==
    IF e.state = RUNNING
    THEN EmulationRunner_run(Ev(e, <<"call", "run">>))
    ELSE IF e.state = TEARDOWN
    THEN Then(teardown(Ev(e, <<"call", "teardown">>)), LAMBDA t :
            IF Raised(t) THEN t ELSE reset(Ev(t, <<"call", "reset">>)))
    ELSE e

\* For comparison: a set() whose exit action goes by the state that was asked
\* for.
SetExitByTarget(e, new_state) ==
    IF SameState(e, new_state) THEN e
    ELSE Then(Entering(e, new_state), LAMBDA entered :
         Then([entered EXCEPT !.state = new_state], LAMBDA committed :
         Then(Notify(committed, new_state, 1), LAMBDA notified :
            IF Raised(notified) THEN notified
            ELSE Leaving([notified EXCEPT !.state = new_state]))))

set(e, new_state) ==
    IF SameState(e, new_state) THEN e
    ELSE Then(Entering(e, new_state), LAMBDA entered :
         Then([entered EXCEPT !.state = new_state], LAMBDA committed :
         Then(Notify(committed, new_state, 1), LAMBDA notified :
            IF Raised(notified) THEN notified ELSE Leaving(notified))))

\* For comparison: a reset that keeps the engine and the compiled code.
ResetKeepsEngine(e) ==
    set([e EXCEPT !.sections = MEMORY_MAP_DEFAULT_LAYOUT,
                  !.registers = [name \in ArchRegisters(e.arch) |-> 0],
                  !.start_addr = 0],
        NOT_RUNNING)

reset(e) ==
    set([e EXCEPT !.vm = None,
                  !.code = <<>>,
                  !.sections = MEMORY_MAP_DEFAULT_LAYOUT,
                  !.registers = [name \in ArchRegisters(e.arch) |-> 0],
                  !.start_addr = 0],
        NOT_RUNNING)

add_state_change_cb(e, new_state, cb) ==
    [e EXCEPT !.callbacks[new_state] = Append(@, cb)]

---------------------------------------------------------------------------
(* The state machine *)

\* The values the register editor writes.
UserValues == {0, TextBase + 2}

\* The registers the register editor writes.
UserRegisters == {ArchPc, ArchSp, "A"}

\* The registers the widgets read.
ReadableRegisters == UserRegisters \cup {"CS"}

Threads == 1..MaxThreads

\* A thread with no run request in flight.  A thread with one has where the
\* run starts and stops, whether emu_start raised, and whether emu_stop reached
\* the run.
IdleThread ==
    [pc |-> "idle", via |-> "", begin |-> 0, until |-> 0, raised |-> FALSE, stop |-> FALSE]

Init ==
    /\ arch \in Architectures
    /\ state = STARTING
    /\ vm = None
    /\ code = <<>>
    /\ codelines = <<>>
    /\ sections = <<>>
    /\ registers = <<>>
    /\ start_addr = 0
    /\ end_addr = <<>>
    /\ use_step_mode = FALSE
    /\ callbacks = [s \in EmulatorState |-> <<>>]
    /\ last = [op |-> "init", arg |-> "", ev |-> <<>>, exc |-> NoExc,
               from |-> STARTING, hadvm |-> FALSE, clean |-> FALSE,
               val |-> 0, old |-> 0, after |-> FALSE]
    /\ fresh = -1
    /\ lock = 0
    /\ threads = [t \in Threads |-> IdleThread]

\* The session is as reset() leaves it.
IsReset ==
    /\ state = NOT_RUNNING
    /\ ~vm.live
    /\ code = <<>>
    /\ sections = MEMORY_MAP_DEFAULT_LAYOUT
    /\ registers = [name \in ArchRegisters(arch) |-> 0]
    /\ start_addr = 0

\* The session after a request, and what the request was: its name and
\* argument, the events and the exception it ended with, the state it was made
\* in (from, hadvm), whether it was setup() on a session as reset() leaves it
\* (clean), the value it read (val; old: the cached value before), and whether
\* the request before it was such a setup() (after).
Session(r, op, arg, val) ==
    /\ arch' = r.arch
    /\ state' = r.state
    /\ vm' = r.vm
    /\ code' = r.code
    /\ codelines' = r.codelines
    /\ sections' = r.sections
    /\ registers' = r.registers
    /\ start_addr' = r.start_addr
    /\ end_addr' = r.end_addr
    /\ use_step_mode' = r.use_step_mode
    /\ callbacks' = r.callbacks
    /\ last' = [op |-> op, arg |-> arg, ev |-> r.ev, exc |-> r.exc,
                from |-> state, hadvm |-> vm.live,
                clean |-> (op = "setup" /\ IsReset),
                val |-> val,
                old |-> IF op = "read" THEN registers[arg] ELSE 0,
                after |-> last.clean]

\* A request made on the user-interface thread, no other thread at work.
Commit(r, op, arg, val) ==
    /\ Session(r, op, arg, val)
    /\ UNCHANGED <<lock, threads>>

\* The observers the dock widgets register while CEmuWindow.__init__ builds
\* them, before the window registers its own: one for RUNNING and two for
\* TEARDOWN.
DockWidgets(e) ==
    add_state_change_cb(
        add_state_change_cb(
            add_state_change_cb(e, RUNNING, "dock_widget_running"),
            TEARDOWN, "dock_widget_teardown"),
        TEARDOWN, "dock_widget_cleanup")

\* CEmuWindow.__init__: the widgets are built, the window's four observers are
\* registered, then emu.reset().
MainWindowInit ==
    /\ state = STARTING
    /\ LET a == add_state_change_cb(DockWidgets(Self), NOT_RUNNING, "update_layout_not_running")
           b == add_state_change_cb(a, RUNNING, "update_layout_running")
           c == add_state_change_cb(b, IDLE, "update_layout_step_running")
           d == add_state_change_cb(c, FINISHED, "update_layout_step_finished")
       IN  Commit(reset(d), "reset", "", 0)
    /\ fresh' = 0

\* emu.set(new_state), requested by the user interface.
SetState(new_state) ==
    /\ state # STARTING
    /\ Commit(set(Self, new_state), "set", new_state, 0)
    /\ fresh' = IF new_state = TEARDOWN /\ state # TEARDOWN /\ last'.exc = NoExc THEN 0
                ELSE IF new_state = RUNNING /\ fresh >= 0 /\ fresh < MaxProg
                THEN fresh + 1
                ELSE -1

CallSetup ==
    /\ state # STARTING
    /\ Commit(setup(Self), "setup", "", 0)
    /\ fresh' = -1

CallTeardown ==
    /\ state # STARTING
    /\ Commit(teardown(Self), "teardown", "", 0)
    /\ fresh' = -1

CallReset ==
    /\ state # STARTING
    /\ Commit(reset(Self), "reset", "", 0)
    /\ fresh' = 0

\* registers[name], read by a widget.
ReadRegister(name) ==
    /\ state # STARTING
    /\ name \in DOMAIN registers
    /\ LET r == __getitem__(Self, name)
       IN  Commit(r, "read", name, r.registers[name])
    /\ fresh' = -1

\* The editors are used while a session is being configured: after a reset and
\* before the first setup.
Configuring ==
    /\ state = NOT_RUNNING
    /\ ~vm.live
    /\ code = <<>>
    /\ start_addr = 0

\* registers[name] = value, written by the register editor: one register of a
\* default layout is given a value.
WriteRegister(name, value) ==
    /\ Configuring
    /\ sections = MEMORY_MAP_DEFAULT_LAYOUT
    /\ \A k \in DOMAIN registers \ {name} : registers[k] = 0
    /\ Commit(__setitem__(Self, name, value), "write", name, value)
    /\ fresh' = -1

\* The code editor stores the source text.
EditCode(src) ==
    /\ Configuring
    /\ Commit([Self EXCEPT !.codelines = src], "edit_code", "", 0)
    /\ fresh' = IF fresh = 0 THEN 0 ELSE -1

\* The memory-map editor replaces the section list.
EditSections(layout) ==
    /\ Configuring
    /\ \A k \in DOMAIN registers : registers[k] = 0
    /\ Commit([Self EXCEPT !.sections = layout], "edit_sections", "", 0)
    /\ fresh' = -1

\* The command widget chooses step mode or free run.
SetStepMode(b) ==
    /\ state # STARTING
    /\ Commit([Self EXCEPT !.use_step_mode = b], "step_mode", "", 0)
    /\ fresh' = IF fresh = 0 THEN 0 ELSE -1

Next ==
    \/ MainWindowInit
    \/ \E new_state \in EmulatorState \ {STARTING} : SetState(new_state)
    \/ CallSetup
    \/ CallTeardown
    \/ CallReset
    \/ \E name \in ReadableRegisters : ReadRegister(name)
    \/ \E name \in UserRegisters, value \in UserValues : WriteRegister(name, value)
    \/ \E src \in Sources : EditCode(src)
    \/ \E layout \in Layouts : EditSections(layout)
    \/ \E b \in BOOLEAN : SetStepMode(b)

Spec == Init /\ [][Next]_vars

---------------------------------------------------------------------------
(* Properties *)

\* The positions of the events of one kind in the last request.
EventsOf(kind) == {i \in 1..Len(last.ev) : last.ev[i][1] = kind}

Called(what) ==
    \E i \in EventsOf("call") : last.ev[i][2] = what

\* The value setup seeds a zero register of the default layout with.
Seeded(name) ==
    CASE name = ArchPc -> TextBase
      [] name = ArchSp -> StackBase + (StackSize \div 2)
      [] name = "CS" -> SegmentDescriptor(TextBase \div 256, SegCode)
      [] name = "DS" -> SegmentDescriptor(DataBase \div 256, SegData)
      [] name = "SS" -> SegmentDescriptor(StackBase \div 256, SegStack)
      [] OTHER -> 0

\* A source of one or more instructions, none of which faults.
StraightLine ==
    /\ Len(codelines) >= 1
    /\ \A i \in 1..Len(codelines) : codelines[i] = "inc"

\* C1: set(new_state) with new_state the current state changes nothing, fires
\* no observer and calls neither setup, the runner, teardown nor reset.
C1_SameStateIsNoOp ==
    [][ (last'.op = "set" /\ last'.arg = state)
        => /\ UNCHANGED <<state, vm, sections, registers, code, codelines,
                          start_addr, end_addr, use_step_mode, callbacks>>
           /\ last'.ev = <<>>
           /\ last'.exc = NoExc ]_vars

C1_Witness ==
    /\ last.op = "set"
    /\ last.arg = last.from
    /\ last.arg = IDLE
    /\ last.hadvm

\* C2: from a reset session (default layout, registers zero) with a source of
\* N >= 1 instructions that do not fault, in step mode the k-th run request in
\* a row ends in IDLE for k < N and in FINISHED for k = N; in free-run mode
\* the first run request ends in FINISHED.
C2_StepsToFinished ==
    (fresh >= 1 /\ StraightLine /\ last.op = "set" /\ last.arg = RUNNING)
    => IF use_step_mode
       THEN /\ fresh < Len(codelines) => state = IDLE
            /\ fresh = Len(codelines) => state = FINISHED
       ELSE fresh = 1 => state = FINISHED

C2_Witness ==
    /\ fresh = 2
    /\ StraightLine
    /\ Len(codelines) = 2
    /\ use_step_mode
    /\ last.op = "set"
    /\ last.arg = RUNNING
    /\ state = FINISHED

\* C3, as claimed: setup() and then teardown() on a reset session leave no
\* engine, state NOT_RUNNING, the default layout and every register zero.
C3_SetupTeardownZeroes ==
    (last.op = "teardown" /\ last.after)
    => /\ ~vm.live
       /\ state = NOT_RUNNING
       /\ sections = MEMORY_MAP_DEFAULT_LAYOUT
       /\ \A name \in DOMAIN registers : registers[name] = 0

\* C3, amended: setup() and then teardown() on a reset session leave no
\* engine, state NOT_RUNNING, the default layout, and every register zero
\* except those setup seeded: the program counter (the text base), the stack
\* pointer (the middle of the stack) and, on 32-bit x86, CS, DS and SS.
C3_SetupTeardownSeeded ==
    (last.op = "teardown" /\ last.after)
    => /\ ~vm.live
       /\ state = NOT_RUNNING
       /\ sections = MEMORY_MAP_DEFAULT_LAYOUT
       /\ DOMAIN registers = ArchRegisters(arch)
       /\ \A name \in DOMAIN registers : registers[name] = Seeded(name)

C3_Witness ==
    /\ last.op = "teardown"
    /\ last.after
    /\ last.hadvm
    /\ EventsOf("mem_unmap") # {}
    /\ registers[ArchPc] = TextBase

\* C4: setup() on a NOT_RUNNING session whose section list lacks the stack
\* fails with CemuEmulatorMissingRequiredSection("stack"), and the session is
\* still NOT_RUNNING with no engine.
C4_MissingStack ==
    (last.op = "setup" /\ last.from = NOT_RUNNING /\ ~last.hadvm
        /\ sections = LayoutNoStack)
    => /\ last.exc = [type |-> "CemuEmulatorMissingRequiredSection",
                      arg |-> MEMORY_STACK_SECTION_NAME]
       /\ state = NOT_RUNNING
       /\ ~vm.live

\* C5: when the setup() of a transition to RUNNING or IDLE fails, the state
\* stays what it was, no observer is fired and the runner is not invoked.
C5_FailedSetupAborts ==
    (last.op = "set" /\ last.arg \in {RUNNING, IDLE} /\ EventsOf("popup") # {})
    => /\ state = last.from
       /\ EventsOf("cb") = {}
       /\ ~Called("run")

\* C6: when the source does not compile during a setup() that started with no
\* engine, the session has no engine afterwards, and code and end_addr are
\* unchanged.
C6_CompileFailureLeavesNoEngine ==
    [][ (last'.op = "setup" /\ ~vm.live
            /\ \E i \in 1..Len(last'.ev) : last'.ev[i] = <<"error", "Failed to compile">>)
        => /\ ~vm'.live
           /\ code' = code
           /\ end_addr' = end_addr ]_vars

\* C7: a run request during which the engine faults ends in FINISHED, in
\* either mode, and the program counter shown with the fault is the engine's
\* at the fault.
C7_FaultEndsFinished ==
    (last.op = "set" /\ EventsOf("emu_fault") # {})
    => /\ state = FINISHED
       /\ \A i \in EventsOf("emu_fault") :
            \E j \in EventsOf("popup_fault") :
                /\ j > i
                /\ last.ev[j][2] = last.ev[i][2]
                /\ last.ev[j][2] = vm.regs[ArchPc]

C7_Witness ==
    /\ last.op = "set"
    /\ ~use_step_mode
    /\ state = FINISHED
    /\ \E i \in EventsOf("emu_fault"), k \in EventsOf("emu_start") :
            /\ k < i
            /\ last.ev[i][2] # last.ev[k][2]

\* C8: the engine's run primitive is never invoked on an engine that has
\* faulted in an earlier run.
C8_FaultedNeverResumed ==
    \A i \in EventsOf("emu_start") : ~last.ev[i][4]

\* C9: setup() with an engine present creates no engine, installs no hook,
\* maps nothing and writes neither a register nor the code.
C9_SetupIdempotent ==
    [][ (last'.op = "setup" /\ vm.live)
        => /\ last'.ev = <<>>
           /\ last'.exc = NoExc
           /\ UNCHANGED <<state, vm, sections, registers, code, start_addr, end_addr>> ]_vars

C9_Witness ==
    /\ last.op = "setup"
    /\ last.hadvm
    /\ last.after
    /\ Len(vm.mapped) = Len(MEMORY_MAP_DEFAULT_LAYOUT)

ExitCalls ==
    {i \in EventsOf("call") : last.ev[i][2] \in {"run", "teardown", "reset"}}

\* The events of the last request up to the start of its exit action.
BeforeExit ==
    IF ExitCalls = {} THEN last.ev ELSE SubSeq(last.ev, 1, Min(ExitCalls) - 1)

\* The observer calls among them, in order.
ObserversBeforeExit == SelectSeq(BeforeExit, LAMBDA x : x[1] = "cb")

\* C11: a set(s) with s different from the current state calls every observer
\* registered for s exactly once, in the order of registration, with the
\* state already s, before the runner, teardown or reset starts; it calls no
\* observer of another state before that, and no observer of s after.
C11_ObserversInOrder ==
    (last.op = "set" /\ last.arg # last.from)
    => /\ Len(ObserversBeforeExit) = Len(callbacks[last.arg])
       /\ \A k \in 1..Len(ObserversBeforeExit) :
            /\ ObserversBeforeExit[k][2] = last.arg
            /\ ObserversBeforeExit[k][3] = callbacks[last.arg][k]
            /\ ObserversBeforeExit[k][4] = last.arg
       /\ \A i \in EventsOf("cb") :
            (ExitCalls # {} /\ i > Min(ExitCalls)) => last.ev[i][2] # last.arg
       /\ last.arg \in {RUNNING, TEARDOWN} => ExitCalls # {}

C11_Witness ==
    /\ last.op = "set"
    /\ last.arg = RUNNING
    /\ last.from = NOT_RUNNING
    /\ Len(callbacks[RUNNING]) = 2
    /\ Len(ObserversBeforeExit) = 2
    /\ Called("run")
    /\ code # <<>>
    /\ state = FINISHED

EventsIn(ev, kind) == {i \in 1..Len(ev) : ev[i][1] = kind}

\* The calls of the observers of a state among the events ev.
ObserverCalls(ev, s) == {i \in EventsIn(ev, "cb") : ev[i][2] = s}

\* C12: in a transition to TEARDOWN from a state with an engine, every
\* TEARDOWN observer runs with the engine held and as many sections mapped as
\* before the call; the first unmap and the release of the engine come after
\* the last TEARDOWN observer.
C12_TeardownObserversSeeEngine ==
    [][ (last'.op = "set" /\ last'.arg = TEARDOWN /\ state # TEARDOWN /\ vm.live)
        => /\ Cardinality(ObserverCalls(last'.ev, TEARDOWN)) = Len(callbacks[TEARDOWN])
           /\ \A i \in ObserverCalls(last'.ev, TEARDOWN) :
                /\ last'.ev[i][5]
                /\ last'.ev[i][6] = Len(vm.mapped)
                /\ \A j \in EventsIn(last'.ev, "mem_unmap") \cup EventsIn(last'.ev, "uc_del") :
                        i < j ]_vars

C12_Witness ==
    /\ last.op = "set"
    /\ last.arg = TEARDOWN
    /\ last.from = IDLE
    /\ last.hadvm
    /\ Cardinality(ObserverCalls(last.ev, TEARDOWN)) = 2
    /\ \A i \in ObserverCalls(last.ev, TEARDOWN) :
            last.ev[i][5] /\ last.ev[i][6] = Len(MEMORY_MAP_DEFAULT_LAYOUT)
    /\ Cardinality(EventsOf("mem_unmap")) = Len(MEMORY_MAP_DEFAULT_LAYOUT)
    /\ EventsOf("uc_del") # {}
    /\ ~vm.live

\* C13: when set(TEARDOWN) returns, from a state other than TEARDOWN, the
\* session holds no engine, is NOT_RUNNING, has the default layout, a register
\* cache of zeros and no compiled code, and the NOT_RUNNING observers were
\* called after the TEARDOWN observers.
C13_TeardownEndsReset ==
    (last.op = "set" /\ last.arg = TEARDOWN /\ last.from # TEARDOWN /\ last.exc = NoExc)
    => /\ ~vm.live
       /\ state = NOT_RUNNING
       /\ sections = MEMORY_MAP_DEFAULT_LAYOUT
       /\ registers = [name \in ArchRegisters(arch) |-> 0]
       /\ code = <<>>
       /\ Cardinality(ObserverCalls(last.ev, NOT_RUNNING)) = Len(callbacks[NOT_RUNNING])
       /\ Cardinality(ObserverCalls(last.ev, TEARDOWN)) = Len(callbacks[TEARDOWN])
       /\ \A i \in ObserverCalls(last.ev, TEARDOWN), j \in ObserverCalls(last.ev, NOT_RUNNING) :
            i < j

C13_Witness ==
    /\ last.op = "set"
    /\ last.arg = TEARDOWN
    /\ last.from = FINISHED
    /\ last.hadvm
    /\ last.exc = NoExc
    /\ state = NOT_RUNNING
    /\ ObserverCalls(last.ev, NOT_RUNNING) # {}
    /\ ObserverCalls(last.ev, TEARDOWN) # {}
    /\ EventsOf("mem_unmap") # {}

\* ---------------------------------------------------------------------------
\* Run requests from several threads
\* ---------------------------------------------------------------------------

\* No thread has a run request in flight.
Quiet == \A t \in Threads : threads[t].pc = "idle"

\* For comparison: a lock that never makes a thread wait.
LockNeverBlocks == TRUE

\* Emulator.lock is a Lock(): entering "with emu.lock" waits until it is free.
CanAcquire == lock = 0

\* EmulationRunner.run() on thread t, up to "with emu.lock": the two guards,
\* the start address and where to stop.
RunnerRequest(t) ==
    /\ threads[t].pc = "idle"
    /\ IF ~vm.live \/ ~is_running(Self)
       THEN /\ Session(EmulationRunner_run(Self), "run", "", 0)
            /\ UNCHANGED <<lock, threads>>
       ELSE LET p == __getitem__(Self, ArchPc)
                start_address == IF p.registers[ArchPc] # 0 THEN p.registers[ArchPc]
                                 ELSE p.start_addr
                insn == next_instruction(SliceFrom(p.code, start_address - p.start_addr),
                                         start_address)
            IN  IF p.use_step_mode /\ ~insn.found
                THEN /\ Session(set(p, FINISHED), "run", "", 0)
                     /\ UNCHANGED <<lock, threads>>
                ELSE /\ Session(p, "run", "", 0)
                     /\ threads' = [threads EXCEPT ![t] =
                            [pc |-> "ready", via |-> "run", begin |-> start_address,
                             until |-> IF p.use_step_mode THEN StepEnd(insn) ELSE RunEnd(p),
                             raised |-> FALSE,
                             stop |-> FALSE]]
                     /\ UNCHANGED lock
    /\ fresh' = -1

\* emu.set(RUNNING) on thread t, up to "with emu.lock" in the runner it calls:
\* the early return when the state is RUNNING already, the entry action, the
\* state, the observers, then the runner's guards, start address and stop
\* address.
SetRunningRequest(t) ==
    /\ threads[t].pc = "idle"
    /\ state # STARTING
    /\ IF SameState(Self, RUNNING)
       THEN /\ Session(Self, "set", RUNNING, 0)
            /\ UNCHANGED <<lock, threads>>
       ELSE LET n == Notify([Entering(Self, RUNNING) EXCEPT !.state = RUNNING], RUNNING, 1)
                p == __getitem__(n, ArchPc)
                start_address == IF p.registers[ArchPc] # 0 THEN p.registers[ArchPc]
                                 ELSE p.start_addr
                insn == next_instruction(SliceFrom(p.code, start_address - p.start_addr),
                                         start_address)
            IN  IF ~n.vm.live
                THEN /\ Session(EmulationRunner_run(n), "set", RUNNING, 0)
                     /\ UNCHANGED <<lock, threads>>
                ELSE IF p.use_step_mode /\ ~insn.found
                THEN /\ Session(set(p, FINISHED), "set", RUNNING, 0)
                     /\ UNCHANGED <<lock, threads>>
                ELSE /\ Session(p, "set", RUNNING, 0)
                     /\ threads' = [threads EXCEPT ![t] =
                            [pc |-> "ready", via |-> "run", begin |-> start_address,
                             until |-> IF p.use_step_mode THEN StepEnd(insn) ELSE RunEnd(p),
                             raised |-> FALSE,
                             stop |-> FALSE]]
                     /\ UNCHANGED lock
    /\ fresh' = -1

\* Emulator.start(start_address, end_address) on thread t, up to
\* "with self.lock": the two assertions.  The requests are counted by what the
\* code they run has added up, and stop at MaxProg.
StartRequest(t, start_address, end_address) ==
    /\ threads[t].pc = "idle"
    /\ vm.live => vm.regs["A"] < MaxProg
    /\ IF ~vm.live \/ ~is_running(Self)
       THEN /\ Session(Raise(Self, "AssertionError", ""), "start", "", 0)
            /\ UNCHANGED <<lock, threads>>
       ELSE /\ Session(Self, "start", "", 0)
            /\ threads' = [threads EXCEPT ![t] =
                   [pc |-> "ready", via |-> "start", begin |-> start_address,
                    until |-> end_address, raised |-> FALSE, stop |-> FALSE]]
            /\ UNCHANGED lock
    /\ fresh' = -1

\* Thread t enters the "with" block: it takes the lock.
Acquire(t) ==
    /\ threads[t].pc = "ready"
    /\ CanAcquire
    /\ lock' = t
    /\ threads' = [threads EXCEPT ![t].pc = "locked"]
    /\ Session(Ev(Self, <<"lock_acquire">>), "acquire", "", 0)
    /\ fresh' = -1

\* Thread t calls vm.emu_start: it is inside the engine until EngineReturn.
EngineEnter(t) ==
    /\ threads[t].pc = "locked"
    /\ threads' = [threads EXCEPT ![t].pc = "running"]
    /\ Session(Ev(Self, <<"emu_start", threads[t].begin, threads[t].until, vm.faulted>>),
               "emu_start", "", 0)
    /\ UNCHANGED lock
    /\ fresh' = -1

\* vm.emu_start returns to thread t, or raises UcError.
EngineReturn(t) ==
    /\ threads[t].pc = "running"
    /\ LET u == emu_start(vm, threads[t].begin, threads[t].until)
       IN  /\ Session(Ev([Self EXCEPT !.vm = u],
                         IF u.trap THEN <<"emu_fault", u.regs[ArchPc]>>
                                   ELSE <<"emu_return", u.regs[ArchPc]>>),
                      "emu_return", "", 0)
           /\ threads' = [threads EXCEPT ![t].pc = "returned", ![t].raised = u.trap]
    /\ UNCHANGED lock
    /\ fresh' = -1

\* Thread t leaves the "with" block, normally or by the exception: the lock is
\* released.  Emulator.start is over then, its UcError passed to the caller.
Release(t) ==
    /\ threads[t].pc = "returned"
    /\ lock' = 0
    /\ IF threads[t].via = "run"
       THEN /\ threads' = [threads EXCEPT ![t].pc = "released"]
            /\ Session(Ev(Self, <<"lock_release">>), "release", "", 0)
       ELSE /\ threads' = [threads EXCEPT ![t] = IdleThread]
            /\ Session(IF threads[t].raised
                       THEN Raise(Ev(Self, <<"lock_release">>), "UcError", "emu_start")
                       ELSE Ev(Self, <<"lock_release">>),
                       "release", "", 0)
    /\ fresh' = -1

\* The rest of EmulationRunner.run() on thread t: FINISHED or IDLE after a
\* run that returned, the popup and FINISHED after one that raised.
RunnerFinish(t) ==
    /\ threads[t].pc = "released"
    /\ threads' = [threads EXCEPT ![t] = IdleThread]
    /\ Session(AfterRun([Self EXCEPT !.vm.trap = threads[t].raised]), "finish", "", 0)
    /\ UNCHANGED lock
    /\ fresh' = -1

\* The user interface, while no run request is in flight.
UserInterface ==
    /\ Quiet
    /\ \/ MainWindowInit
       \/ \E src \in Sources : EditCode(src)
       \/ \E b \in BOOLEAN : SetStepMode(b)
       \/ \E new_state \in {IDLE, TEARDOWN} : SetState(new_state)

NextThreads ==
    \/ UserInterface
    \/ \E t \in Threads : RunnerRequest(t)
    \/ \E t \in Threads : SetRunningRequest(t)
    \/ \E t \in Threads : StartRequest(t, start_addr, start_addr + Len(code))
    \/ \E t \in Threads : Acquire(t)
    \/ \E t \in Threads : EngineEnter(t)
    \/ \E t \in Threads : EngineReturn(t)
    \/ \E t \in Threads : Release(t)
    \/ \E t \in Threads : RunnerFinish(t)

SpecThreads == Init /\ [][NextThreads]_vars

\* The threads inside vm.emu_start.
InEngine == {t \in Threads : threads[t].pc = "running"}

\* C14: with several threads issuing run requests, through the runner or
\* through Emulator.start, at most one thread is inside emu_start at any time,
\* and a thread inside emu_start holds the session lock.
C14_OneThreadInEngine ==
    /\ Cardinality(InEngine) <= 1
    /\ \A t \in InEngine : lock = t

\* One thread is inside emu_start, having come through Emulator.start, while
\* another, having come through the runner, waits for the lock.
C14_Witness ==
    \E t, u \in Threads :
        /\ threads[t].pc = "running" /\ threads[t].via = "start"
        /\ threads[u].pc = "ready" /\ threads[u].via = "run"

\* C15: when the runner's run() is invoked while no engine exists, or while
\* the state is neither RUNNING nor IDLE, it reports an invalid-state error
\* and returns: emu_start is not called, the lock is not taken, and the
\* session is what it was.
C15_RunnerRejectsInvalidState ==
    [][(last'.op = "run" /\ (~vm.live \/ ~is_running(Self))) =>
          /\ \E i \in 1..Len(last'.ev) : last'.ev[i][1] = "error"
          /\ EventsIn(last'.ev, "emu_start") = {}
          /\ EventsIn(last'.ev, "lock_acquire") = {}
          /\ last'.exc = NoExc
          /\ UNCHANGED <<arch, state, vm, code, codelines, sections, registers,
                         start_addr, end_addr, use_step_mode, callbacks, lock,
                         threads>>]_vars

\* run() was invoked on a FINISHED session that has its engine, and reported
\* the invalid state.
C15_Witness ==
    /\ last.op = "run"
    /\ last.from = FINISHED
    /\ last.hadvm
    /\ last.ev = << <<"error", "Emulator is in invalid state">> >>

\* ---------------------------------------------------------------------------
\* The register cache as a mapping
\* ---------------------------------------------------------------------------

\* A name no architecture has a register for.
UnknownNames == {"XX"}

\* emu.registers[name] = value, from any caller and for any name.
StoreRegister(name, value) ==
    /\ state # STARTING
    /\ Commit(__setitem__(Self, name, value), "store", name, value)
    /\ fresh' = -1

NextRegisters ==
    \/ MainWindowInit
    \/ CallReset
    \/ \E name \in ReadableRegisters : ReadRegister(name)
    \/ \E name \in ArchRegisters(arch) \cup UnknownNames, value \in UserValues :
           StoreRegister(name, value)

SpecRegisters == Init /\ [][NextRegisters]_vars

\* C16: storing under a name that is not in the architecture's register set
\* fails with an unknown-register error and leaves the cache as it was, so the
\* keys of the cache are always the architecture's register names.
C16_UnknownRegisterRejected ==
    /\ [](state # STARTING => DOMAIN registers = ArchRegisters(arch))
    /\ [][(last'.op = "store" /\ last'.arg \notin ArchRegisters(arch)) =>
             /\ last'.exc.type = "UnknownRegister"
             /\ registers' = registers]_vars

\* ---------------------------------------------------------------------------
\* Section lookup
\* ---------------------------------------------------------------------------

\* The sections a list is made of: the three of the default layout and a
\* second section named "text", elsewhere in memory.
SectionPool ==
    {MEMORY_MAP_DEFAULT_LAYOUT[i] : i \in 1..3}
    \cup {MemorySection(MEMORY_TEXT_SECTION_NAME, StackBase + StackSize, SmallSize,
                        {"READ", "EXEC"})}

SectionLists == SeqsUpTo(SectionPool, MaxSections)

SectionNames ==
    {MEMORY_TEXT_SECTION_NAME, MEMORY_DATA_SECTION_NAME, MEMORY_STACK_SECTION_NAME, "heap"}

\* emu.find_section(section_name): the section it returns, or the exception.
FindSection(section_name) ==
    /\ state # STARTING
    /\ LET f == find_section(Self, section_name)
       IN  Commit(IF f.exc = NoExc THEN Ev(Self, <<"return", f.section>>)
                  ELSE Raise(Self, f.exc.type, f.exc.arg),
                  "find_section", section_name, 0)
    /\ fresh' = -1

NextSections ==
    \/ MainWindowInit
    \/ CallReset
    \/ \E layout \in SectionLists : EditSections(layout)
    \/ \E section_name \in SectionNames : FindSection(section_name)

SpecSections == Init /\ [][NextSections]_vars

\* The places of the sections of that name in the list.
Named(secs, name) == {i \in 1..Len(secs) : secs[i].name = name}

\* C17: find_section returns the section of that name when the list has
\* exactly one, fails with a not-found error when it has none and with an
\* ambiguity error when it has several, one of several never being returned;
\* the list is left as it was.
C17_FindSectionUnique ==
    [][last'.op = "find_section" =>
          /\ sections' = sections
          /\ LET hits == Named(sections, last'.arg)
             IN  /\ Cardinality(hits) = 1 =>
                        /\ last'.exc = NoExc
                        /\ \A i \in hits : last'.ev = << <<"return", sections[i]>> >>
                 /\ Cardinality(hits) = 0 =>
                        /\ last'.exc.type = "KeyError"
                        /\ last'.ev = <<>>
                 /\ Cardinality(hits) > 1 =>
                        /\ last'.exc.type = "ValueError"
                        /\ last'.ev = <<>>]_vars

\* The lookup of "text" in a list holding two different sections of that name
\* and one other has failed with the ambiguity error.
C17_Witness ==
    /\ last.op = "find_section"
    /\ last.arg = MEMORY_TEXT_SECTION_NAME
    /\ Len(sections) = MaxSections
    /\ Cardinality(Named(sections, MEMORY_TEXT_SECTION_NAME)) = 2
    /\ \E i, j \in Named(sections, MEMORY_TEXT_SECTION_NAME) : sections[i] # sections[j]
    /\ last.exc.type = "ValueError"

\* C18: after reset(), called in any state, the state is NOT_RUNNING, the
\* sections are the default layout, every register of the architecture is in
\* the cache with value zero, the code is empty and there is no engine.
C18_ResetPostcondition ==
    last.op = "reset" =>
        /\ last.exc = NoExc
        /\ state = NOT_RUNNING
        /\ sections = MEMORY_MAP_DEFAULT_LAYOUT
        /\ DOMAIN registers = ArchRegisters(arch)
        /\ \A name \in ArchRegisters(arch) : registers[name] = 0
        /\ code = <<>>
        /\ ~vm.live

\* reset() was called on a FINISHED session that had an engine and compiled
\* code; the NOT_RUNNING observer ran.
C18_Witness ==
    /\ last.op = "reset"
    /\ last.from = FINISHED
    /\ last.hadvm
    /\ codelines # <<>>
    /\ ObserverCalls(last.ev, NOT_RUNNING) # {}
    /\ ~vm.live

\* The program counter emu_start returned with, in the events of a request.
ReturnedAt(ev) == {ev[i][2] : i \in EventsIn(ev, "emu_return")}

\* C19: after emu_start has returned without a fault, the runner sets the
\* state to FINISHED exactly when the engine's program counter is
\* start_addr + len(code), and to IDLE otherwise; the state is not left RUNNING.
C19_FinishedAtEndElseIdle ==
    (last.op = "set" /\ last.arg = RUNNING /\ ReturnedAt(last.ev) # {}) =>
        /\ \A pc \in ReturnedAt(last.ev) :
              /\ vm.regs[ArchPc] = pc
              /\ state = FINISHED <=> pc = start_addr + Len(code)
              /\ state = IDLE <=> pc # start_addr + Len(code)
        /\ state # RUNNING

\* A step over the first of two instructions returned before the end of the
\* code, and the session is IDLE.
C19_Witness ==
    /\ last.op = "set"
    /\ last.arg = RUNNING
    /\ use_step_mode
    /\ Len(codelines) = 2
    /\ ReturnedAt(last.ev) = {start_addr + 2}
    /\ start_addr + 2 < start_addr + Len(code)
    /\ state = IDLE

\* C20: whatever set(), setup(), teardown() and reset() calls were made, a
\* session in state IDLE or FINISHED has an engine.
C20_IdleOrFinishedHasEngine ==
    state \in {IDLE, FINISHED} => vm.live

\* C21: whatever set(), setup(), teardown() and reset() calls were made, a
\* session in state NOT_RUNNING has no engine: an engine is held only in
\* RUNNING, IDLE, FINISHED or TEARDOWN.
C21_NotRunningHasNoEngine ==
    /\ state = NOT_RUNNING => ~vm.live
    /\ vm.live => state \in {RUNNING, IDLE, FINISHED, TEARDOWN}

\* C22: the engine executes instructions only for the runner, which set()
\* calls on leaving for RUNNING: no other public operation of the session
\* gets a thread into vm.emu_start.
C22_EngineRunsOnlyForRunner ==
    \A t \in InEngine : threads[t].via = "run"

\* C23: teardown() on a session with an engine tries to unmap every section
\* and then releases the engine, a failing unmap stopping neither; on a
\* session with no engine it changes nothing.
C23_TeardownBestEffort ==
    /\ [](last.op = "teardown" => (~vm.live /\ last.exc = NoExc))
    /\ [][(last'.op = "teardown" /\ ~vm.live) =>
             /\ last'.ev = <<>>
             /\ UNCHANGED <<arch, state, vm, code, codelines, sections, registers,
                            start_addr, end_addr, use_step_mode, callbacks>>]_vars

\* The one section of that name in the list.
TheSection(secs, name) == secs[CHOOSE i \in Named(secs, name) : TRUE]

\* The request populated the engine's registers.
RegistersPopulated(l) ==
    /\ l.op = "setup" \/ (l.op = "set" /\ l.arg = IDLE)
    /\ EventsIn(l.ev, "reg_write") # {}

\* C24: during setup a cached program counter of zero becomes the address of
\* the text section and a cached stack pointer of zero becomes
\* stack.address + stack.size / 2, a non-zero one given by the user is kept,
\* and afterwards the engine holds the cached value of every register that is
\* not a selector.
C24_SetupSeedsRegisters ==
    [][RegistersPopulated(last') =>
          /\ registers'[ArchPc] =
                IF registers[ArchPc] = 0
                THEN TheSection(sections, MEMORY_TEXT_SECTION_NAME).address
                ELSE registers[ArchPc]
          /\ registers'[ArchSp] =
                IF registers[ArchSp] = 0
                THEN TheSection(sections, MEMORY_STACK_SECTION_NAME).address
                     + (TheSection(sections, MEMORY_STACK_SECTION_NAME).size \div 2)
                ELSE registers[ArchSp]
          /\ \A name \in DOMAIN registers' \ selector_registers :
                vm'.regs[name] = registers'[name]]_vars

\* The request created an engine and mapped every section of the list: the
\* populate-memory step of setup completed.
MemoryPopulated(l) ==
    /\ l.op = "setup" \/ (l.op = "set" /\ l.arg = IDLE)
    /\ EventsIn(l.ev, "uc_new") # {}
    /\ Len(sections) >= 1
    /\ Cardinality(EventsIn(l.ev, "mem_map")) = Len(sections)

\* C25: after the populate-memory step of setup, start_addr is the lowest
\* address among the sections of the list, whatever their order.
C25_StartAddrIsLowest ==
    MemoryPopulated(last) =>
        start_addr = Min({sections[i].address : i \in 1..Len(sections)})

\* The request was a setup that created an engine and ended without an
\* exception.
SetupSucceeded(l) ==
    /\ l.op = "setup"
    /\ l.exc = NoExc
    /\ EventsIn(l.ev, "uc_new") # {}

\* C26: after a successful setup end_addr is start_addr + len(code), and the
\* engine's memory holds the compiled bytes at [start_addr, end_addr), the
\* addresses they were assembled for, inside the text section: for every
\* layout the anchor of the assembly is the address the bytes are written to.
C26_CodeWhereAssembled ==
    SetupSucceeded(last) =>
        /\ end_addr = << start_addr + Len(code) >>
        /\ vm.mem.bytes = code
        /\ vm.mem.base = start_addr
        /\ TheSection(sections, MEMORY_TEXT_SECTION_NAME).address <= start_addr
        /\ start_addr + Len(code) <=
               TheSection(sections, MEMORY_TEXT_SECTION_NAME).address
               + TheSection(sections, MEMORY_TEXT_SECTION_NAME).size

\* The emu_start calls among the events of a request, as <<start, end>>.
Runs(ev) == {<<ev[i][2], ev[i][3]>> : i \in EventsIn(ev, "emu_start")}

\* The request was a run request in step mode that reached emu_start.
Stepped(l) == l.op = "set" /\ l.arg = RUNNING /\ Runs(l.ev) # {}

\* Each step runs from the engine's program counter (from start_addr when that
\* is zero) over the one instruction found there.
StepIsOneInstruction ==
    [][(use_step_mode /\ Stepped(last')) =>
          \A r \in Runs(last'.ev) :
              /\ vm.live =>
                    r[1] = IF vm.regs[ArchPc] # 0 THEN vm.regs[ArchPc] ELSE start_addr
              /\ Written(vm', r[1])
              /\ Decode(SliceFrom(vm'.mem.bytes, r[1] - vm'.mem.base), r[1]).end = r[2]]_vars

\* A step that follows a step that returned starts where that one stopped.
StepsChain ==
    [][(use_step_mode /\ Stepped(last) /\ ReturnedAt(last.ev) # {} /\ Stepped(last')) =>
          \A r \in Runs(last'.ev) : r[1] \in ReturnedAt(last.ev)]_vars

\* The step that creates the engine starts at start_addr, or at the program
\* counter the user had set.
FirstStepAtStartAddr ==
    [][(use_step_mode /\ Stepped(last') /\ ~vm.live) =>
          \A r \in Runs(last'.ev) :
              r[1] = IF registers[ArchPc] # 0 THEN registers[ArchPc] ELSE start_addr']_vars

\* C27: in step mode a run request that finds an instruction at the program
\* counter runs the engine over that one instruction, from the program counter
\* to the instruction's end; each step starts where the one before stopped,
\* and the first step starts at start_addr or at the program counter the user
\* set.
C27_StepByStep ==
    /\ StepIsOneInstruction
    /\ StepsChain
    /\ FirstStepAtStartAddr

\* C28: a run request, set(RUNNING), made by a second thread while a run is
\* in flight is not dropped: it has its run once the first is over (that it
\* does not overlap the first is C14).  A request that is dropped returns
\* having done nothing.
C28_SecondRunRequestServed ==
    [][(last'.op = "set" /\ last'.arg = RUNNING /\ ~Quiet) =>
          (threads' # threads \/ last'.ev # <<>>)]_vars

\* ---------------------------------------------------------------------------
\* Stopping a run
\* ---------------------------------------------------------------------------

\* The thread of the window's runner.
TheRunner == CHOOSE t \in Threads : TRUE

\* For comparison: a stop that asserts nothing.
StopAcceptedAlways == TRUE

\* "assert self.vm; assert self.is_running" in Emulator.stop.
StopAccepted == vm.live /\ is_running(Self)

\* The ends of the instructions the engine executes from pc on, up to until.
RECURSIVE InsnEnds(_, _, _)
InsnEnds(u, pc, until) ==
    IF pc >= until \/ ~Written(u, pc) THEN {}
    ELSE LET insn == Decode(SliceFrom(u.mem.bytes, pc - u.mem.base), pc)
         IN  IF ~insn.found \/ insn.end > until THEN {}
             ELSE {insn.end} \cup InsnEnds(u, insn.end, until)

\* Emulator.stop(), from the user interface.  vm.emu_stop() asks the engine to
\* leave emu_start; a run in flight ends after the instruction it is at, or
\* after a later one when the engine notices later, the last one included.
\* With no run in flight the request is forgotten when the next run starts.
StopRequest ==
    /\ state # STARTING
    /\ IF ~StopAccepted
       THEN /\ Session(Raise(Self, "AssertionError", ""), "stop", "", 0)
            /\ UNCHANGED threads
       ELSE /\ Session(Ev(Self, <<"emu_stop">>), "stop", "", 0)
            /\ IF \E t \in Threads :
                     /\ threads[t].pc = "running"
                     /\ ~threads[t].stop
                     /\ InsnEnds(vm, threads[t].begin, threads[t].until) # {}
               THEN \E t \in Threads :
                       /\ threads[t].pc = "running"
                       /\ ~threads[t].stop
                       /\ \E a \in InsnEnds(vm, threads[t].begin, threads[t].until) :
                             threads' = [threads EXCEPT ![t].until = a, ![t].stop = TRUE]
               ELSE UNCHANGED threads
    /\ UNCHANGED lock
    /\ fresh' = -1

NextStop ==
    \/ UserInterface
    \/ StopRequest
    \/ SetRunningRequest(TheRunner)
    \/ Acquire(TheRunner)
    \/ EngineEnter(TheRunner)
    \/ EngineReturn(TheRunner)
    \/ Release(TheRunner)
    \/ RunnerFinish(TheRunner)

SpecStop == Init /\ [][NextStop]_vars

\* stop() fails without calling the engine unless there is an engine and the
\* state is RUNNING or IDLE.
StopOnlyWhenRunning ==
    [][last'.op = "stop" =>
          IF vm.live /\ state \in {RUNNING, IDLE}
          THEN last'.exc = NoExc /\ last'.ev = << <<"emu_stop">> >>
          ELSE /\ last'.exc.type = "AssertionError"
               /\ last'.ev = <<>>
               /\ UNCHANGED <<threads, vm, state>>]_vars

\* A run request from IDLE starts at the engine's program counter.
ResumesAtPc ==
    [][\A t \in Threads :
          (/\ state = IDLE
           /\ vm.live
           /\ vm.regs[ArchPc] # 0
           /\ threads[t].pc = "idle"
           /\ threads'[t].pc = "ready") => threads'[t].begin = vm.regs[ArchPc]]_vars

\* The thread whose free run emu_stop reached finishes its run request.
StoppedRunEnds(t) ==
    /\ ~use_step_mode
    /\ threads[t].stop
    /\ ~threads[t].raised
    /\ threads[t].pc = "released"
    /\ threads'[t].pc = "idle"

\* C29 as stated: stop() is accepted only with an engine and in RUNNING or
\* IDLE; a free run it reaches returns before the end of the code, and the run
\* request ends in IDLE, from where the next one resumes at the engine's
\* program counter.
C29_StoppedRunEndsIdle ==
    /\ StopOnlyWhenRunning
    /\ ResumesAtPc
    /\ [][\A t \in Threads :
             StoppedRunEnds(t) =>
                 /\ vm.regs[ArchPc] < start_addr + Len(code)
                 /\ state' = IDLE]_vars

\* C29, amended: stop() is accepted only with an engine and in RUNNING or
\* IDLE; a free run it reaches returns at the end of an instruction, the last
\* one at the latest; the run request ends in IDLE when that is before the end
\* of the code and in FINISHED when it is the end; from IDLE the next run
\* request resumes at the engine's program counter.
C29_StoppedRunEndsIdleBeforeEnd ==
    /\ StopOnlyWhenRunning
    /\ ResumesAtPc
    /\ [][\A t \in Threads :
             StoppedRunEnds(t) =>
                 /\ vm.regs[ArchPc] = threads[t].until
                 /\ vm.regs[ArchPc] <= start_addr + Len(code)
                 /\ vm.regs[ArchPc] < start_addr + Len(code) => state' = IDLE
                 /\ vm.regs[ArchPc] = start_addr + Len(code) => state' = FINISHED]_vars

\* A free run over two instructions was stopped after the first: the session
\* is IDLE with the program counter at the second.
C29_Witness ==
    /\ last.op = "finish"
    /\ last.from = RUNNING
    /\ ~use_step_mode
    /\ Len(codelines) = 2
    /\ vm.live
    /\ vm.regs[ArchPc] = start_addr + 2
    /\ start_addr + 2 < start_addr + Len(code)
    /\ state = IDLE
    /\ Quiet

\* The observers called for IDLE and for FINISHED among the events of a request.
PauseObservers(ev) == ObserverCalls(ev, IDLE) \cup ObserverCalls(ev, FINISHED)

\* C30: when a run pauses or finishes, RUNNING to IDLE or to FINISHED, the
\* whole register cache is refreshed from the engine before the new state is
\* committed: every IDLE or FINISHED observer finds, for every register, the
\* cached value equal to the engine's.
C30_ObserversSeeFreshRegisters ==
    (last.op = "set" /\ last.arg = RUNNING) =>
        \A i \in PauseObservers(last.ev) :
            /\ last.ev[i][7]
            /\ \E j \in EventsIn(last.ev, "refresh") : j < i

\* A step executed an instruction that changed a register the runner never
\* reads, and the IDLE observer saw the cache agree with the engine.
C30_Witness ==
    /\ last.op = "set"
    /\ last.arg = RUNNING
    /\ ObserverCalls(last.ev, IDLE) # {}
    /\ \A i \in ObserverCalls(last.ev, IDLE) : last.ev[i][7]
    /\ state = IDLE
    /\ registers["A"] = 1
    /\ vm.regs["A"] = 1

\* ---------------------------------------------------------------------------
\* Observers that change the state
\* ---------------------------------------------------------------------------

\* emu.add_state_change_cb(RUNNING, cb) with an observer that calls emu.set:
\* one such observer is registered, while the session is being configured.
RegisterObserver(cb) ==
    /\ Configuring
    /\ \A i \in 1..Len(callbacks[RUNNING]) : callbacks[RUNNING][i] \notin ReentrantObservers
    /\ Commit(add_state_change_cb(Self, RUNNING, cb), "register", cb, 0)
    /\ fresh' = -1

NextObservers ==
    \/ MainWindowInit
    \/ \E cb \in ReentrantObservers : RegisterObserver(cb)
    \/ \E src \in Sources : EditCode(src)
    \/ \E b \in BOOLEAN : SetStepMode(b)
    \/ \E new_state \in EmulatorState \ {STARTING} : SetState(new_state)

SpecObservers == Init /\ [][NextObservers]_vars

\* The calls of the runner among the events of a request.
RunnerCalls(ev) == {i \in EventsIn(ev, "call") : ev[i][2] = "run"}

\* An observer of RUNNING that calls emu.set is registered.
Reentrant ==
    \E i \in 1..Len(callbacks[RUNNING]) : callbacks[RUNNING][i] \in ReentrantObservers

\* C31: the exit action of a transition goes by the state that is current
\* once the observers have returned, not by the state asked for: when an
\* observer of RUNNING has moved the session to another state the runner is
\* not called and the engine does not run; a request for RUNNING calls the
\* runner once at most, and once when no observer has changed the state.
C31_ExitByCurrentState ==
    (last.op = "set" /\ last.arg = RUNNING /\ last.from # RUNNING) =>
        /\ Cardinality(RunnerCalls(last.ev)) <= 1
        /\ Reentrant => (RunnerCalls(last.ev) = {} /\ EventsIn(last.ev, "emu_start") = {})
        /\ ~Reentrant => Cardinality(RunnerCalls(last.ev)) = 1

\* A request for RUNNING on a session with code: the observer that asks for
\* IDLE ran, the runner was not called, and the session is IDLE with its
\* engine.
C31_Witness ==
    /\ last.op = "set"
    /\ last.arg = RUNNING
    /\ last.from = NOT_RUNNING
    /\ code # <<>>
    /\ \E i \in ObserverCalls(last.ev, RUNNING) : last.ev[i][3] = "goto_IDLE"
    /\ RunnerCalls(last.ev) = {}
    /\ state = IDLE
    /\ vm.live

\* C32: RUNNING does not outlast the request for it: when set(RUNNING)
\* returns, the runner being called on the same thread, the state is IDLE or
\* FINISHED, also when setup failed or the engine faulted; so no request for
\* RUNNING meets the same-state early return.
C32_RunningIsTransient ==
    /\ state # RUNNING
    /\ (last.op = "set" /\ last.arg = RUNNING) =>
           /\ state \in {IDLE, FINISHED}
           /\ last.from # RUNNING
           /\ last.exc = NoExc

\* A request for RUNNING whose setup failed or whose engine faulted.
C32_Witness ==
    /\ last.op = "set" /\ last.arg = RUNNING
    /\ state = FINISHED
    /\ \E i \in DOMAIN last.ev : last.ev[i][1] \in {"popup", "emu_fault"}

\* The request that ended in l left an engine with every section of the list
\* mapped, the registers written and the code written.
Materialized(l, secs, u) ==
    /\ Len(secs) >= 1
    /\ \A i \in 1..Len(secs) : IsMapped(u, secs[i])
    /\ EventsIn(l.ev, "reg_write") # {}
    /\ EventsIn(l.ev, "mem_write") # {}

\* C33: an engine handle means a fully materialized engine: whenever a
\* request leaves the session with a handle it did not have, every section is
\* mapped, the registers are seeded and the code is written; a setup() that
\* failed part-way leaves no handle for a later setup() to take as ready.
C33_HandleMeansMaterialized ==
    [][(~vm.live /\ vm'.live) =>
          /\ Materialized(last', sections', vm')
          /\ last'.exc = NoExc
          /\ EventsIn(last'.ev, "popup") = {}]_vars

----------------------------------------------------------------------------
(* Requests for RUNNING or IDLE from several threads: set() and setup() take
   no lock, so another thread can run between the test "if self.vm" and
   "self.vm = arch.uc" *)

\* setup() past its test of self.vm: the handle is assigned whatever it held.
SetupUnchecked(e) == setup([e EXCEPT !.vm = None])

\* set(new_state) on thread t, new_state needing an engine, up to the test
\* "if self.vm" in setup(): with the state asked for already, or an engine
\* held, nothing in between can be interrupted to any effect and the request
\* is served at once.
SetupCheck(t, new_state) ==
    /\ threads[t].pc = "idle"
    /\ state # STARTING
    /\ IF SameState(Self, new_state) \/ AlreadySetup(Self)
       THEN /\ Session(set(Self, new_state), "set", new_state, 0)
            /\ UNCHANGED <<lock, threads>>
       ELSE /\ Session(Self, "check", new_state, 0)
            /\ threads' = [threads EXCEPT ![t] =
                   [pc |-> "checked", via |-> "set", new_state |-> new_state]]
            /\ UNCHANGED lock
    /\ fresh' = -1

\* The rest of set(new_state) on thread t: setup() from "self.vm = arch.uc",
\* the except clause, the state, the observers and the exit action.
SetupProceed(t) ==
    /\ threads[t].pc = "checked"
    /\ Session(
          Then(CatchSetup(SetupUnchecked(Ev(Self, <<"call", "setup">>))), LAMBDA s :
          Then(IF s.state = RUNNING THEN __refresh_registers_from_vm(s) ELSE s,
               LAMBDA entered :
          Then(Notify([entered EXCEPT !.state = threads[t].new_state],
                      threads[t].new_state, 1), LAMBDA notified :
             IF Raised(notified) THEN notified ELSE Leaving(notified)))),
          "set", threads[t].new_state, 0)
    /\ threads' = [threads EXCEPT ![t] = IdleThread]
    /\ UNCHANGED lock
    /\ fresh' = -1

NextSetup ==
    \/ UserInterface
    \/ \E t \in Threads, new_state \in {RUNNING, IDLE} : SetupCheck(t, new_state)
    \/ \E t \in Threads : SetupProceed(t)

SpecSetup == Init /\ [][NextSetup]_vars

\* The names of the sections the engine has mapped.
MappedNames(u) == {u.mapped[i].name : i \in 1..Len(u.mapped)}

\* C34: with two threads asking for RUNNING or IDLE on a session with no
\* engine, one engine is created and each section is mapped once: no step
\* creates an engine while the session holds one, or maps a section the
\* session's engine has mapped.
C34_OneEngineForTwoRequests ==
    [][/\ EventsIn(last'.ev, "uc_new") # {} => ~vm.live
       /\ \A i \in EventsIn(last'.ev, "mem_map") :
             last'.ev[i][2] \notin MappedNames(vm)]_vars

\* The names of the sections unmapped during the request that ended in l.
UnmappedNames(l) == {l.ev[i][2] : i \in EventsIn(l.ev, "mem_unmap")}

\* C35: the engine handle is not dropped while sections are mapped: whenever
\* a request (teardown(), reset(), or set(TEARDOWN) with its exit action)
\* leaves the session without the handle it had, every section the engine
\* had mapped was unmapped during that request.
C35_UnmappedBeforeDropped ==
    [][(vm.live /\ ~vm'.live) => MappedNames(vm) \subseteq UnmappedNames(last')]_vars

====
